---- MODULE Spec2Model ----
(***************************************************************************)
(* Model of task_queue.py: bounded task queues, worker pools with a shared *)
(* task counter and sentinel shutdown, the foreground runner, stages with  *)
(* forward links, the shared Pipeline of recorded exceptions, and chain(). *)
(***************************************************************************)
EXTENDS Integers, Sequences, FiniteSets, TLC

\* ---------------------------------------------------------------- bounds
MaxStages == 3
MaxWorkers == 2
MaxThreads == 3
MaxCap == 2
MaxK == 2
\* the largest K of the scenario whose driver pushes every index itself before
\* it calls run() on a foreground last stage
MaxSame == 4
MaxWork == 6
MaxWaits == 2
ChainStages == 4
MaxErrs == 6

\* ------------------------------------------------------------- constants
NoStage == 0
NoPipe == 0
Free == <<9, 9>>
Sentinel == 0 - 1
NoTask == 0 - 2

NumSlots == IF MaxStages > ChainStages THEN MaxStages ELSE ChainStages
Stages == 1..NumSlots
MaxPipes == NumSlots + MaxWorkers + 1
Pids == 1..MaxPipes

\* threads: the driver (main) thread, the producer thread, worker w of stage s
Main == <<0, 0>>
Producer == <<0, 1>>
WorkerIds == Stages \X (1..MaxWorkers)
Threads == {Main, Producer} \cup WorkerIds

VARIABLES
    \* constructor arguments of the scenario
    nstages,        \* number of stages built by the driver
    kind,           \* kind[s]: "Stage", "StageCurrent" or "none"
    num_threads,    \* num_threads[s]: workers of the stage's ThreadPool
    capacity,       \* BoundedTaskQueue.capacity of stage s
    ntasks,         \* K: the count passed to setTaskCount and the number of pushes
    producer,       \* the thread that pushes the indices into the first stage
    \* objects
    next,           \* Stage.next
    pipeline,       \* Stage._pipeline (NoPipe is None)
    npipes,         \* number of Pipeline objects created so far
    exceptions,     \* Pipeline.exceptions, per Pipeline object
    tasks,          \* BoundedTaskQueue.tasks of stage s
    task_counter,   \* ThreadPoolEx.task_counter[0] / CurrentThreadEx.task_counter[0]
    stop,           \* ThreadPool.stop / CurrentThread.stop
    done_cv,        \* holder of the lock of the stage's done_cv, or Free
    \* threads
    pc,             \* position of each thread
    cur,            \* the stage a thread is working on
    task,           \* the task a thread popped (an index or Sentinel)
    todo,           \* sentinels a thread still has to push in stopAll
    step,           \* the driver's loop variable
    pushed,         \* number of push calls the producer completed
    \* observations
    invoked,        \* invoked[s][i]: number of calls func(i) of stage s
    invokedBy,      \* invokedBy[s][i]: threads that called func(i) of stage s
    raised,         \* raised[s][i]: number of calls func(i) of stage s that raised
    arrived,        \* arrived[s][i]: number of push(i) calls completed on stage s
    waits,          \* results of the wait()/run() calls that returned, in order
    relinked,       \* some chain() call overwrote a next link that was set
    last,           \* the latest direct call of setCapacity, setTaskCount or
                    \* get_exception_summary, with its arguments and its outcome
    bound           \* bound[t]: the queue.Queue object thread t is blocked on in
                    \* popTask: "no" (not inside get), "cur" (the one in
                    \* BoundedTaskQueue.tasks) or "old" (one that was replaced)

cfgVars == <<nstages, kind, num_threads, capacity, ntasks, producer>>
objVars == <<next, pipeline, npipes, exceptions, tasks, task_counter, stop, done_cv>>
thrVars == <<pc, cur, task, todo, step, pushed>>
obsVars == <<invoked, invokedBy, raised, arrived, waits, relinked>>
apiVars == <<last>>
vars == <<cfgVars, objVars, thrVars, obsVars, apiVars, bound>>

\* no direct call was made yet
NoCall == [op |-> "none"]

Indices == 0..(MaxK - 1)

\* the indices any scenario pushes: the domain of the per-index records
MaxIndex == IF MaxSame > MaxK THEN MaxSame ELSE MaxK
IndexRange == 0..(MaxIndex - 1)

\* the stages the driver built
Built == 1..nstages

\* the worker threads of stage s (ThreadPool.workers)
workers(s) == IF kind[s] = "Stage" THEN {s} \X (1..num_threads[s]) ELSE {}

\* ------------------------------------------------------- Stage.pipeline
\* the pipeline property: creates the Pipeline when _pipeline is None
pipeline_get(pl, n, s) ==
    IF pl[s] = NoPipe
    THEN [pl |-> [pl EXCEPT ![s] = n + 1], n |-> n + 1]
    ELSE [pl |-> pl, n |-> n]

\* ---------------------------------------------------------------- chain
\* the stages visited by "current = stage; while current is not None:
\* ...; current = current.next"
RECURSIVE Walk(_, _, _)
Walk(nx, s, seen) ==
    IF s = NoStage \/ s \in seen THEN seen
    ELSE Walk(nx, nx[s], seen \cup {s})

\* chain without the sharing: only the next link is set
chain_nolink(nx, pl, n, a, b) ==
    LET gb == pipeline_get(pl, n, b)
        ga == pipeline_get(gb.pl, gb.n, a)
    IN  [next |-> [nx EXCEPT ![a] = b], pl |-> ga.pl, n |-> ga.n]

\* chain without the walk: only stage_b takes the pipeline of stage_a
chain_shallow(nx, pl, n, a, b) ==
    LET gb == pipeline_get(pl, n, b)
        ga == pipeline_get(gb.pl, gb.n, a)
    IN  [next |-> [nx EXCEPT ![a] = b],
         pl |-> [ga.pl EXCEPT ![b] = ga.pl[a]],
         n |-> ga.n]

\* chain handing the pipeline of stage_a to every stage there is
chain_everywhere(nx, pl, n, a, b) ==
    LET gb == pipeline_get(pl, n, b)
        ga == pipeline_get(gb.pl, gb.n, a)
    IN  [next |-> [nx EXCEPT ![a] = b],
         pl |-> [s \in Stages |-> IF s \in Built THEN ga.pl[a] ELSE ga.pl[s]],
         n |-> ga.n]

\* chain(stage_a, stage_b): the next links, the pipelines and the number of
\* Pipeline objects after the call
chain(nx, pl, n, a, b) ==
    LET nx1 == [nx EXCEPT ![a] = b]
        gb == pipeline_get(pl, n, b)
        ga == pipeline_get(gb.pl, gb.n, a)
        down == Walk(nx1, b, {})
    IN  IF ga.pl[b] # ga.pl[a]
        THEN [next |-> nx1,
              pl |-> [s \in Stages |-> IF s \in down THEN ga.pl[a] ELSE ga.pl[s]],
              n |-> ga.n]
        ELSE [next |-> nx1, pl |-> ga.pl, n |-> ga.n]

\* ----------------------------------------------------------------- Init
\* the state after the constructors Stage(...) / StageCurrent(...) returned:
\* queues empty, counters 0, stop False, no next link, _pipeline None, every
\* pool worker started and about to pop
Constructed(L, nt, cap, fg) ==
    /\ nstages = L
    /\ kind = [s \in Stages |-> IF s > L THEN "none"
                                ELSE IF fg /\ s = L THEN "StageCurrent" ELSE "Stage"]
    /\ num_threads = nt
    /\ capacity = cap
    /\ next = [s \in Stages |-> NoStage]
    /\ pipeline = [s \in Stages |-> NoPipe]
    /\ npipes = 0
    /\ exceptions = [p \in Pids |-> <<>>]
    /\ tasks = [s \in Stages |-> <<>>]
    /\ task_counter = [s \in Stages |-> 0]
    /\ stop = [s \in Stages |-> FALSE]
    /\ done_cv = [s \in Stages |-> Free]
    /\ pc = [t \in Threads |->
                IF t = Main THEN "chain"
                ELSE IF t = Producer THEN "idle"
                ELSE IF t[2] <= nt[t[1]] THEN "pop"
                ELSE "none"]
    /\ cur = [t \in Threads |-> IF t \in {Main, Producer} THEN NoStage ELSE t[1]]
    /\ task = [t \in Threads |-> NoTask]
    /\ todo = [t \in Threads |-> 0]
    /\ step = 1
    /\ pushed = 0
    /\ invoked = [s \in Stages |-> [i \in IndexRange |-> 0]]
    /\ invokedBy = [s \in Stages |-> [i \in IndexRange |-> {}]]
    /\ raised = [s \in Stages |-> [i \in IndexRange |-> 0]]
    /\ arrived = [s \in Stages |-> [i \in IndexRange |-> 0]]
    /\ waits = <<>>
    /\ relinked = FALSE
    /\ last = NoCall
    /\ bound = [t \in Threads |-> "no"]

\* the sum of f over the stages 1..n
RECURSIVE Sum(_, _)
Sum(f, n) == IF n = 0 THEN 0 ELSE f[n] + Sum(f, n - 1)

\* the scenarios: L stages in a row, the last one a StageCurrent when fg, nt[s]
\* workers in the pool of stage s, capacity c, K = k indices pushed by thread p
\* (the driver itself or a producer thread it starts)
Init ==
    \E L \in 1..MaxStages, nt \in [Stages -> 0..MaxWorkers], c \in 1..MaxCap,
       k \in 0..MaxK, fg \in BOOLEAN, p \in {Main, Producer} :
        /\ \A s \in Stages : nt[s] = 0 <=> (s > L \/ (fg /\ s = L))
        /\ Sum(nt, NumSlots) <= MaxThreads
        /\ (Sum(nt, NumSlots) + (IF fg THEN 1 ELSE 0)) * k * c <= MaxWork
        /\ p = Main <=> (L = 1 /\ ~fg)
        /\ Constructed(L, nt, [s \in Stages |-> c], fg)
        /\ ntasks = k
        /\ producer = p

\* ------------------------------------------------------ BoundedTaskQueue
\* a queue without maxsize: put never blocks
CanPushAlways(s) == TRUE

\* pushTask: queue.Queue.put blocks while the queue holds maxsize items
CanPush(s) == Len(tasks[s]) < capacity[s]

pushTask(q, s, x) == [q EXCEPT ![s] = Append(q[s], x)]

\* ---------------------------------------------------- the worker loop
\* ThreadPool._worker and CurrentThread.run, executed by thread t on stage
\* cur[t]

\* a queue that hands out the newest task first
PopNewest(t) ==
    /\ pc[t] = "pop"
    /\ bound[t] # "old"
    /\ tasks[cur[t]] # <<>>
    /\ bound' = [bound EXCEPT ![t] = "no"]
    /\ task' = [task EXCEPT ![t] = tasks[cur[t]][Len(tasks[cur[t]])]]
    /\ tasks' = [tasks EXCEPT ![cur[t]] = SubSeq(@, 1, Len(@) - 1)]
    /\ pc' = [pc EXCEPT ![t] = "chk"]
    /\ UNCHANGED <<cfgVars, apiVars, next, pipeline, npipes, exceptions, task_counter,
                   stop, done_cv, cur, todo, step, pushed, obsVars>>

\* task = self.task_queue.popTask(): self.tasks.get() returns the head of the
\* queue the call was made on
Pop(t) ==
    /\ pc[t] = "pop"
    /\ bound[t] # "old"
    /\ tasks[cur[t]] # <<>>
    /\ bound' = [bound EXCEPT ![t] = "no"]
    /\ task' = [task EXCEPT ![t] = Head(tasks[cur[t]])]
    /\ tasks' = [tasks EXCEPT ![cur[t]] = Tail(tasks[cur[t]])]
    /\ pc' = [pc EXCEPT ![t] = "chk"]
    /\ UNCHANGED <<cfgVars, apiVars, next, pipeline, npipes, exceptions, task_counter,
                   stop, done_cv, cur, todo, step, pushed, obsVars>>

\* a _run that never forwards the index
AfterFuncNoForward(s) == "fin"

\* the position after func(index) returned, or after its exception was
\* recorded: "finally: if self.next:" leads to the push into the next stage
AfterFunc(s) == IF next[s] = NoStage THEN "fin" ELSE "fwd"

\* "if self.stop: break", else task(): a sentinel is "lambda: None"; a real
\* task is Stage._run(index), which calls self.func(index), and func returns
\* or raises
RunTask(t) ==
    /\ pc[t] = "chk"
    /\ IF stop[cur[t]]
       THEN /\ pc' = [pc EXCEPT ![t] = IF t = Main THEN "r_chk" ELSE "exit"]
            /\ task' = [task EXCEPT ![t] = NoTask]
            /\ UNCHANGED <<invoked, invokedBy, raised>>
       ELSE IF task[t] = Sentinel
       THEN /\ pc' = [pc EXCEPT ![t] = "fin"]
            /\ UNCHANGED <<task, invoked, invokedBy, raised>>
       ELSE \E ok \in BOOLEAN :
            /\ invoked' = [invoked EXCEPT ![cur[t]][task[t]] = @ + 1]
            /\ invokedBy' = [invokedBy EXCEPT ![cur[t]][task[t]] = @ \cup {t}]
            /\ raised' = [raised EXCEPT ![cur[t]][task[t]] = IF ok THEN @ ELSE @ + 1]
            /\ pc' = [pc EXCEPT ![t] = IF ok THEN AfterFunc(cur[t]) ELSE "pchk"]
            /\ UNCHANGED task
    /\ UNCHANGED <<cfgVars, apiVars, bound, objVars, cur, todo, step, pushed,
                   arrived, waits, relinked>>

\* self.pipeline in the except branch: "if self._pipeline is None"
PipelineCheck(t) ==
    /\ pc[t] = "pchk"
    /\ pc' = [pc EXCEPT ![t] = IF pipeline[cur[t]] = NoPipe THEN "pset" ELSE "pret"]
    /\ UNCHANGED <<cfgVars, apiVars, bound, objVars, cur, task, todo, step, pushed, obsVars>>

\* "self._pipeline = Pipeline()"
PipelineCreate(t) ==
    /\ pc[t] = "pset"
    /\ npipes < MaxPipes
    /\ pipeline' = [pipeline EXCEPT ![cur[t]] = npipes + 1]
    /\ npipes' = npipes + 1
    /\ pc' = [pc EXCEPT ![t] = "pret"]
    /\ UNCHANGED <<cfgVars, apiVars, bound, next, exceptions, tasks, task_counter, stop, done_cv,
                   cur, task, todo, step, pushed, obsVars>>

\* _run forwarding a failed index without recording the exception
add_exception_skip(t) ==
    /\ pc[t] = "pret"
    /\ pc' = [pc EXCEPT ![t] = AfterFunc(cur[t])]
    /\ UNCHANGED <<cfgVars, apiVars, bound, objVars, cur, task, todo, step, pushed, obsVars>>

\* _run without "finally": a failed index is recorded but not forwarded
add_exception_drop(t) ==
    /\ pc[t] = "pret"
    /\ exceptions' = [exceptions EXCEPT ![pipeline[cur[t]]] =
                          Append(@, <<cur[t], task[t]>>)]
    /\ pc' = [pc EXCEPT ![t] = "fin"]
    /\ UNCHANGED <<cfgVars, apiVars, bound, next, pipeline, npipes, tasks, task_counter, stop,
                   done_cv, cur, task, todo, step, pushed, obsVars>>

\* the exception is recorded and raised again, and the worker loop has no
\* "finally": neither the forward nor taskFinished happens
add_exception_escape(t) ==
    /\ pc[t] = "pret"
    /\ exceptions' = [exceptions EXCEPT ![pipeline[cur[t]]] =
                          Append(@, <<cur[t], task[t]>>)]
    /\ pc' = [pc EXCEPT ![t] = "pop"]
    /\ task' = [task EXCEPT ![t] = NoTask]
    /\ UNCHANGED <<cfgVars, apiVars, bound, next, pipeline, npipes, tasks, task_counter, stop,
                   done_cv, cur, todo, step, pushed, obsVars>>

\* "return self._pipeline" and Pipeline.add_exception(self.name, index, e)
\* on the Pipeline returned
add_exception(t) ==
    /\ pc[t] = "pret"
    /\ exceptions' = [exceptions EXCEPT ![pipeline[cur[t]]] =
                          Append(@, <<cur[t], task[t]>>)]
    /\ pc' = [pc EXCEPT ![t] = AfterFunc(cur[t])]
    /\ UNCHANGED <<cfgVars, apiVars, bound, next, pipeline, npipes, tasks, task_counter, stop,
                   done_cv, cur, task, todo, step, pushed, obsVars>>

\* finally: if self.next: self.next.push(index)
Forward(t) ==
    /\ pc[t] = "fwd"
    /\ CanPush(next[cur[t]])
    /\ tasks' = pushTask(tasks, next[cur[t]], task[t])
    /\ arrived' = [arrived EXCEPT ![next[cur[t]]][task[t]] = @ + 1]
    /\ pc' = [pc EXCEPT ![t] = "fin"]
    /\ UNCHANGED <<cfgVars, apiVars, bound, next, pipeline, npipes, exceptions, task_counter,
                   stop, done_cv, cur, task, todo, step, pushed,
                   invoked, invokedBy, raised, waits, relinked>>

\* a stopAll that pushes one sentinel however many workers there are
NumSentinelsOne(s) == 1

\* a CurrentThread.stopAll that sets stop and pushes no sentinel
NumSentinelsPool(s) == IF kind[s] = "Stage" THEN Cardinality(workers(s)) ELSE 0

\* len(self.workers) sentinels for a ThreadPool, one for a CurrentThread
NumSentinels(s) == IF kind[s] = "Stage" THEN Cardinality(workers(s)) ELSE 1

\* taskFinished decrementing the counter twice
taskFinishedTwice(t) ==
    /\ pc[t] = "fin"
    /\ done_cv[cur[t]] = Free
    /\ task_counter' = [task_counter EXCEPT ![cur[t]] = @ - 2]
    /\ IF task_counter[cur[t]] - 2 = 0
       THEN /\ done_cv' = [done_cv EXCEPT ![cur[t]] = t]
            /\ stop' = [stop EXCEPT ![cur[t]] = TRUE]
            /\ todo' = [todo EXCEPT ![t] = IF stop[cur[t]] THEN 0
                                           ELSE NumSentinels(cur[t])]
            /\ pc' = [pc EXCEPT ![t] = "sent"]
       ELSE /\ pc' = [pc EXCEPT ![t] = "pop"]
            /\ UNCHANGED <<done_cv, stop, todo>>
    /\ task' = [task EXCEPT ![t] = NoTask]
    /\ UNCHANGED <<cfgVars, apiVars, bound, next, pipeline, npipes, exceptions, tasks,
                   cur, step, pushed, obsVars>>

\* a worker loop without "finally": taskFinished is skipped for a task whose
\* function raised
taskFinishedSkipFailed(t) ==
    /\ pc[t] = "fin"
    /\ done_cv[cur[t]] = Free
    /\ LET dec == IF task[t] \in Indices /\ raised[cur[t]][task[t]] > 0 THEN 0 ELSE 1
       IN  /\ task_counter' = [task_counter EXCEPT ![cur[t]] = @ - dec]
           /\ IF dec = 1 /\ task_counter[cur[t]] - 1 = 0
              THEN /\ done_cv' = [done_cv EXCEPT ![cur[t]] = t]
                   /\ stop' = [stop EXCEPT ![cur[t]] = TRUE]
                   /\ todo' = [todo EXCEPT ![t] = IF stop[cur[t]] THEN 0
                                                  ELSE NumSentinels(cur[t])]
                   /\ pc' = [pc EXCEPT ![t] = "sent"]
              ELSE /\ pc' = [pc EXCEPT ![t] = "pop"]
                   /\ UNCHANGED <<done_cv, stop, todo>>
    /\ task' = [task EXCEPT ![t] = NoTask]
    /\ UNCHANGED <<cfgVars, apiVars, bound, next, pipeline, npipes, exceptions, tasks,
                   cur, step, pushed, obsVars>>

\* taskFinished: with self.done_cv: counter -= 1; if counter == 0: stopAll
\* sets stop and goes on to push the sentinels with the lock held
taskFinished(t) ==
    /\ pc[t] = "fin"
    /\ done_cv[cur[t]] = Free
    /\ task_counter' = [task_counter EXCEPT ![cur[t]] = @ - 1]
    /\ IF task_counter[cur[t]] - 1 = 0
       THEN /\ done_cv' = [done_cv EXCEPT ![cur[t]] = t]
            /\ stop' = [stop EXCEPT ![cur[t]] = TRUE]
            /\ todo' = [todo EXCEPT ![t] = IF stop[cur[t]] THEN 0
                                           ELSE NumSentinels(cur[t])]
            /\ pc' = [pc EXCEPT ![t] = "sent"]
       ELSE /\ pc' = [pc EXCEPT ![t] = "pop"]
            /\ UNCHANGED <<done_cv, stop, todo>>
    /\ task' = [task EXCEPT ![t] = NoTask]
    /\ UNCHANGED <<cfgVars, apiVars, bound, next, pipeline, npipes, exceptions, tasks,
                   cur, step, pushed, obsVars>>

\* a stopAll after which done_cv stays locked
stopAllKeepLock(t) ==
    /\ pc[t] = "sent"
    /\ IF todo[t] > 0
       THEN /\ CanPush(cur[t])
            /\ tasks' = pushTask(tasks, cur[t], Sentinel)
            /\ todo' = [todo EXCEPT ![t] = @ - 1]
            /\ UNCHANGED <<done_cv, pc>>
       ELSE /\ pc' = [pc EXCEPT ![t] = "pop"]
            /\ UNCHANGED <<done_cv, tasks, todo>>
    /\ UNCHANGED <<cfgVars, apiVars, bound, next, pipeline, npipes, exceptions, task_counter,
                   stop, cur, task, step, pushed, obsVars>>

\* stopAll: self.task_queue.pushTask(lambda: None), once per worker; then
\* notify_all and the release of done_cv
stopAll(t) ==
    /\ pc[t] = "sent"
    /\ IF todo[t] > 0
       THEN /\ CanPush(cur[t])
            /\ tasks' = pushTask(tasks, cur[t], Sentinel)
            /\ todo' = [todo EXCEPT ![t] = @ - 1]
            /\ UNCHANGED <<done_cv, pc>>
       ELSE /\ done_cv' = [done_cv EXCEPT ![cur[t]] = Free]
            /\ pc' = [pc EXCEPT ![t] = "pop"]
            /\ UNCHANGED <<tasks, todo>>
    /\ UNCHANGED <<cfgVars, apiVars, bound, next, pipeline, npipes, exceptions, task_counter,
                   stop, cur, task, step, pushed, obsVars>>

WorkerStep(t) ==
    \/ Pop(t)
    \/ RunTask(t)
    \/ PipelineCheck(t)
    \/ PipelineCreate(t)
    \/ add_exception(t)
    \/ Forward(t)
    \/ taskFinished(t)
    \/ stopAll(t)

\* ------------------------------------------------------------ the driver
\* what the driver does once the indices are pushed (or the producer thread
\* is started): StageCurrent.run() on a foreground last stage, else wait()
AfterPush == IF kind[nstages] = "StageCurrent" THEN "run" ELSE "wait"

\* chain(stage_1, stage_2); chain(stage_2, stage_3); ...
DriverChain ==
    /\ pc[Main] = "chain"
    /\ IF step < nstages
       THEN LET r == chain(next, pipeline, npipes, step, step + 1)
            IN  /\ next' = r.next
                /\ pipeline' = r.pl
                /\ npipes' = r.n
                /\ step' = step + 1
                /\ UNCHANGED pc
       ELSE /\ pc' = [pc EXCEPT ![Main] = "count"]
            /\ step' = 1
            /\ UNCHANGED <<next, pipeline, npipes>>
    /\ UNCHANGED <<cfgVars, apiVars, bound, exceptions, tasks, task_counter, stop, done_cv,
                   cur, task, todo, pushed, obsVars>>

\* stage.setTaskCount(K) on every stage: self.task_counter[0] = n
setTaskCount ==
    /\ pc[Main] = "count"
    /\ task_counter' = [task_counter EXCEPT ![step] = ntasks]
    /\ IF step < nstages
       THEN /\ step' = step + 1
            /\ UNCHANGED pc
       ELSE /\ step' = 1
            /\ pc' = [pc EXCEPT ![Main] = "start"]
    /\ UNCHANGED <<cfgVars, apiVars, bound, next, pipeline, npipes, exceptions, tasks, stop,
                   done_cv, cur, task, todo, pushed, obsVars>>

\* threading.Thread(target=producer).start(), or the driver's own push loop
Start ==
    /\ pc[Main] = "start"
    /\ pc' = IF producer = Producer
             THEN [pc EXCEPT ![Producer] = IF ntasks = 0 THEN "done" ELSE "push",
                             ![Main] = AfterPush]
             ELSE [pc EXCEPT ![Main] = IF ntasks = 0 THEN AfterPush ELSE "push"]
    /\ UNCHANGED <<cfgVars, apiVars, bound, objVars, cur, task, todo, step, pushed, obsVars>>

\* for i in range(K): stage_1.push(i)
push(t) ==
    /\ t = producer
    /\ pc[t] = "push"
    /\ CanPush(1)
    /\ tasks' = pushTask(tasks, 1, pushed)
    /\ arrived' = [arrived EXCEPT ![1][pushed] = @ + 1]
    /\ pushed' = pushed + 1
    /\ pc' = [pc EXCEPT ![t] = IF pushed + 1 < ntasks THEN "push"
                               ELSE IF t = Main THEN AfterPush ELSE "done"]
    /\ UNCHANGED <<cfgVars, apiVars, bound, next, pipeline, npipes, exceptions, task_counter,
                   stop, done_cv, cur, task, todo, step,
                   invoked, invokedBy, raised, waits, relinked>>

\* StageCurrent.run(): self.executor.run() enters the loop on this thread
run ==
    /\ pc[Main] = "run"
    /\ cur' = [cur EXCEPT ![Main] = nstages]
    /\ pc' = [pc EXCEPT ![Main] = "pop"]
    /\ UNCHANGED <<cfgVars, apiVars, bound, objVars, task, todo, step, pushed, obsVars>>

\* the driver calls stage_s.wait(), and later calls it again on the same
\* stage; ThreadPoolEx.wait: with self.done_cv: wait_for(counter == 0)
wait(s) ==
    /\ pc[Main] = "wait"
    /\ s \in Built
    /\ kind[s] = "Stage"
    /\ waits # <<>> => s = cur[Main]
    /\ done_cv[s] = Free
    /\ task_counter[s] = 0
    /\ cur' = [cur EXCEPT ![Main] = s]
    /\ pc' = [pc EXCEPT ![Main] = "join"]
    /\ UNCHANGED <<cfgVars, apiVars, bound, objVars, task, todo, step, pushed, obsVars>>

\* a wait() that does not join the workers
joinNone ==
    /\ pc[Main] = "join"
    /\ pc' = [pc EXCEPT ![Main] = "w_chk"]
    /\ UNCHANGED <<cfgVars, apiVars, bound, objVars, cur, task, todo, step, pushed, obsVars>>

\* ThreadPool.join: t.join() for every worker
join ==
    /\ pc[Main] = "join"
    /\ \A t \in workers(cur[Main]) : pc[t] = "exit"
    /\ pc' = [pc EXCEPT ![Main] = "w_chk"]
    /\ UNCHANGED <<cfgVars, apiVars, bound, objVars, cur, task, todo, step, pushed, obsVars>>

\* a check that looks only at the errors of the stage itself
OutcomeOwn(s, pl) ==
    [stage |-> s,
     failed |-> \E n \in 1..Len(exceptions[pl[s]]) : exceptions[pl[s]][n][1] = s,
     errors |-> exceptions[pl[s]]]

\* the tail of Stage.wait / StageCurrent.run: if self.pipeline.has_exceptions()
\* raise RuntimeError(summary) from the first exception, else return
Outcome(s, pl) ==
    [stage |-> s, failed |-> Len(exceptions[pl[s]]) > 0, errors |-> exceptions[pl[s]]]

\* a check that empties the Pipeline once it has reported its errors
has_exceptions_consume ==
    /\ pc[Main] \in {"w_chk", "r_chk"}
    /\ LET g == pipeline_get(pipeline, npipes, cur[Main])
       IN  /\ pipeline' = g.pl
           /\ npipes' = g.n
           /\ waits' = Append(waits, Outcome(cur[Main], g.pl))
           /\ exceptions' = [exceptions EXCEPT ![g.pl[cur[Main]]] = <<>>]
    /\ pc' = [pc EXCEPT ![Main] = IF pc[Main] = "w_chk" /\ Len(waits) + 1 < MaxWaits
                                  THEN "wait" ELSE "done"]
    /\ UNCHANGED <<cfgVars, apiVars, bound, next, tasks, task_counter, stop, done_cv,
                   cur, task, todo, step, pushed,
                   invoked, invokedBy, raised, arrived, relinked>>

has_exceptions ==
    /\ pc[Main] \in {"w_chk", "r_chk"}
    /\ LET g == pipeline_get(pipeline, npipes, cur[Main])
       IN  /\ pipeline' = g.pl
           /\ npipes' = g.n
           /\ waits' = Append(waits, Outcome(cur[Main], g.pl))
    /\ pc' = [pc EXCEPT ![Main] = IF pc[Main] = "w_chk" /\ Len(waits) + 1 < MaxWaits
                                  THEN "wait" ELSE "done"]
    /\ UNCHANGED <<cfgVars, apiVars, bound, next, exceptions, tasks, task_counter, stop, done_cv,
                   cur, task, todo, step, pushed,
                   invoked, invokedBy, raised, arrived, relinked>>

Next ==
    \/ \E t \in Threads : WorkerStep(t)
    \/ DriverChain
    \/ setTaskCount
    \/ Start
    \/ \E t \in {Main, Producer} : push(t)
    \/ run
    \/ \E s \in Stages : wait(s)
    \/ join
    \/ has_exceptions

Spec == Init /\ [][Next]_vars

\* the scheduler runs some thread that can take a step
FairSpec == Spec /\ WF_vars(Next)

\* ------------------------------------------------ building a chain
\* a driver that only builds: ChainStages background stages, then chain()
\* calls on any two of them and reads of the pipeline property, in any order
InitChain ==
    /\ Constructed(ChainStages, [s \in Stages |-> IF s <= ChainStages THEN 1 ELSE 0],
                   [s \in Stages |-> 1], FALSE)
    /\ ntasks = 0
    /\ producer = Main
    /\ pc[Main] = "chain"

\* the walk of chain(a, b) from b ends: b does not lead back to a
NoCycle(a, b) == a # b /\ a \notin Walk(next, b, {})

\* chain(stage_a, stage_b)
ChainCall(a, b) ==
    /\ a \in Built /\ b \in Built
    /\ NoCycle(a, b)
    /\ LET r == chain(next, pipeline, npipes, a, b)
       IN  /\ next' = r.next
           /\ pipeline' = r.pl
           /\ npipes' = r.n
    /\ relinked' = (relinked \/ next[a] \notin {NoStage, b})
    /\ UNCHANGED <<cfgVars, apiVars, bound, exceptions, tasks, task_counter, stop, done_cv,
                   thrVars, invoked, invokedBy, raised, arrived, waits>>

\* the driver reads stage.pipeline
PipelineRead(s) ==
    /\ s \in Built
    /\ LET g == pipeline_get(pipeline, npipes, s)
       IN  /\ pipeline' = g.pl
           /\ npipes' = g.n
    /\ UNCHANGED <<cfgVars, apiVars, bound, next, exceptions, tasks, task_counter, stop, done_cv,
                   thrVars, obsVars>>

NextChain ==
    \/ \E a, b \in Stages : ChainCall(a, b)
    \/ \E s \in Stages : PipelineRead(s)

SpecChain == InitChain /\ [][NextChain]_vars

\* ------------------------------------- direct calls on queue and counter
\* a driver that uses the BoundedTaskQueue and the task counter of one stage
\* by itself: pushTask, popTask, setCapacity and setTaskCount in any order
InitApi ==
    \E c \in 1..MaxCap :
        /\ Constructed(1, [s \in Stages |-> 0], [s \in Stages |-> c], FALSE)
        /\ ntasks = 0
        /\ producer = Main

\* some task was pushed into the queue of stage s at some time
EverPushed(s) == \E i \in Indices : arrived[s][i] > 0

\* BoundedTaskQueue.pushTask(task): put blocks while the queue is full
QueuePush(s) ==
    /\ s \in Built
    /\ pushed < MaxK
    /\ CanPush(s)
    /\ tasks' = pushTask(tasks, s, pushed)
    /\ arrived' = [arrived EXCEPT ![s][pushed] = @ + 1]
    /\ pushed' = pushed + 1
    /\ UNCHANGED <<cfgVars, apiVars, bound, next, pipeline, npipes, exceptions,
                   task_counter, stop, done_cv, pc, cur, task, todo, step,
                   invoked, invokedBy, raised, waits, relinked>>

\* BoundedTaskQueue.popTask(): get blocks while the queue is empty
QueuePop(s) ==
    /\ s \in Built
    /\ tasks[s] # <<>>
    /\ tasks' = [tasks EXCEPT ![s] = Tail(tasks[s])]
    /\ UNCHANGED <<cfgVars, apiVars, bound, next, pipeline, npipes, exceptions,
                   task_counter, stop, done_cv, thrVars, obsVars>>

\* BoundedTaskQueue.setCapacity(capacity): "if not self.tasks.empty(): raise
\* RuntimeError", else the capacity is stored and the queue replaced by a new
\* empty queue.Queue(maxsize=capacity); a thread inside get() of the queue
\* that was in self.tasks stays on that object
setCapacity(s, c) ==
    /\ s \in Built
    /\ LET fails == tasks[s] # <<>>
           cap == IF fails THEN capacity[s] ELSE c
           q == IF fails THEN tasks[s] ELSE <<>>
       IN  /\ capacity' = [capacity EXCEPT ![s] = cap]
           /\ tasks' = [tasks EXCEPT ![s] = q]
           /\ bound' = [t \in Threads |->
                            IF ~fails /\ cur[t] = s /\ bound[t] = "cur"
                            THEN "old" ELSE bound[t]]
           /\ last' = [op |-> "setCapacity", stage |-> s, arg |-> c,
                       raised |-> fails,
                       empty |-> tasks[s] = <<>>, everPushed |-> EverPushed(s),
                       before |-> <<capacity[s], tasks[s]>>,
                       after |-> <<cap, q>>]
    /\ UNCHANGED <<nstages, kind, num_threads, ntasks, producer,
                   next, pipeline, npipes, exceptions, task_counter, stop,
                   done_cv, thrVars, obsVars>>

\* the counts a caller may pass: negative ones included
MinCount == 0 - 1
Counts == MinCount..MaxK

\* Stage.setTaskCount(n) -> ThreadPoolEx.setTaskCount(n):
\* "self.task_counter[0] = n", whatever n is
setTaskCountCall(s, n) ==
    /\ s \in Built
    /\ task_counter' = [task_counter EXCEPT ![s] = n]
    /\ last' = [op |-> "setTaskCount", stage |-> s, arg |-> n, raised |-> FALSE,
                before |-> task_counter[s], after |-> n]
    /\ UNCHANGED <<cfgVars, bound, next, pipeline, npipes, exceptions, tasks, stop,
                   done_cv, thrVars, obsVars>>

NextApi ==
    \/ \E s \in Stages : QueuePush(s)
    \/ \E s \in Stages : QueuePop(s)
    \/ \E s \in Stages, c \in 1..MaxCap : setCapacity(s, c)
    \/ \E s \in Stages, n \in Counts : setTaskCountCall(s, n)

SpecApi == InitApi /\ [][NextApi]_vars

\* ------------------------------------------------ the failure raised
\* a summary that lists the newest entries instead of the oldest
get_exception_summary_newest(errs) ==
    IF errs = <<>> THEN << <<"No exceptions">> >>
    ELSE LET n == Len(errs)
             m == IF n < 5 THEN n ELSE 5
         IN  << <<"failed", n>> >>
             \o [j \in 1..m |-> <<"entry", errs[n - m + j][1], errs[n - m + j][2]>>]
             \o (IF n > 5 THEN << <<"more", n - 5>> >> ELSE <<>>)

\* Pipeline.get_exception_summary: the message as its sequence of lines: the
\* line with len(self.exceptions), one line for each of self.exceptions[:5],
\* and "... and n-5 more errors" when there are more than 5
get_exception_summary(errs) ==
    IF errs = <<>> THEN << <<"No exceptions">> >>
    ELSE LET n == Len(errs)
             m == IF n < 5 THEN n ELSE 5
         IN  << <<"failed", n>> >>
             \o [j \in 1..m |-> <<"entry", errs[j][1], errs[j][2]>>]
             \o (IF n > 5 THEN << <<"more", n - 5>> >> ELSE <<>>)

\* a driver that records errors in the Pipeline of one stage and lets the
\* stage raise its failure
InitSummary ==
    /\ Constructed(1, [s \in Stages |-> 0], [s \in Stages |-> 1], FALSE)
    /\ ntasks = 0
    /\ producer = Main

\* self.pipeline.add_exception(self.name, index, e)
RecordError(s, i) ==
    /\ s \in Built
    /\ LET g == pipeline_get(pipeline, npipes, s)
       IN  /\ Len(exceptions[g.pl[s]]) < MaxErrs
           /\ pipeline' = g.pl
           /\ npipes' = g.n
           /\ exceptions' = [exceptions EXCEPT ![g.pl[s]] = Append(@, <<s, i>>)]
    /\ UNCHANGED <<cfgVars, apiVars, bound, next, tasks, task_counter, stop, done_cv,
                   thrVars, obsVars>>

\* the tail of Stage.wait / StageCurrent.run: if has_exceptions(): summary =
\* get_exception_summary(); first_exception = exceptions[0][2]; raise
\* RuntimeError(summary) from first_exception
RaiseFailure(s) ==
    /\ s \in Built
    /\ LET g == pipeline_get(pipeline, npipes, s)
           errs == exceptions[g.pl[s]]
       IN  /\ pipeline' = g.pl
           /\ npipes' = g.n
           /\ last' = IF Len(errs) > 0
                      THEN [op |-> "raise", stage |-> s, errors |-> errs,
                            summary |-> get_exception_summary(errs),
                            cause |-> errs[1]]
                      ELSE [op |-> "return", stage |-> s]
    /\ UNCHANGED <<cfgVars, bound, next, exceptions, tasks, task_counter, stop, done_cv,
                   thrVars, obsVars>>

NextSummary ==
    \/ \E s \in Stages, i \in Indices : RecordError(s, i)
    \/ \E s \in Stages : RaiseFailure(s)

SpecSummary == InitSummary /\ [][NextSummary]_vars

\* ------------------------------------ setCapacity before the first push
\* one background stage whose driver may call stage.queue.setCapacity after
\* the constructor and before setTaskCount, the pushes and wait()
InitConfig ==
    \E n \in 1..MaxWorkers, c \in 1..MaxCap, k \in 1..MaxK :
        /\ Constructed(1, [s \in Stages |-> IF s = 1 THEN n ELSE 0], [s \in Stages |-> c], FALSE)
        /\ ntasks = k
        /\ producer = Main

\* the worker started by ThreadPool.__init__ reaches "self.tasks.get()" of
\* popTask on an empty queue and blocks inside that queue object
popTaskCall(t) ==
    /\ pc[t] = "pop"
    /\ bound[t] = "no"
    /\ tasks[cur[t]] = <<>>
    /\ bound' = [bound EXCEPT ![t] = "cur"]
    /\ UNCHANGED <<cfgVars, apiVars, objVars, thrVars, obsVars>>

\* stage.queue.setCapacity(c), once, before anything else is done with the
\* stage
ConfigureCapacity ==
    /\ pc[Main] = "chain"
    /\ last = NoCall
    /\ \E c \in 1..MaxCap : setCapacity(1, c)

NextConfig ==
    \/ \E t \in WorkerIds : Pop(t)
    \/ \E t \in WorkerIds : popTaskCall(t)
    \/ \E t \in WorkerIds : RunTask(t)
    \/ \E t \in WorkerIds : PipelineCheck(t)
    \/ \E t \in WorkerIds : PipelineCreate(t)
    \/ \E t \in WorkerIds : add_exception(t)
    \/ \E t \in WorkerIds : taskFinished(t)
    \/ \E t \in WorkerIds : stopAll(t)
    \/ ConfigureCapacity
    \/ DriverChain
    \/ setTaskCount
    \/ Start
    \/ push(Main)
    \/ \E s \in Stages : wait(s)
    \/ join
    \/ has_exceptions

SpecConfig == InitConfig /\ [][NextConfig]_vars

\* --------------------------- the driver pushes, then runs the last stage
\* Stage A with n workers and capacity ca chained to StageCurrent G with
\* capacity cg, both counting K = k, the user functions return; the driver
\* itself pushes the K indices into A and calls G.run() after its last push
InitSame ==
    \E n \in 1..MaxWorkers, ca \in 1..MaxCap, cg \in 1..MaxCap, k \in 0..MaxSame :
        /\ ca + n + cg <= MaxSame
        /\ Constructed(2, [s \in Stages |-> IF s = 1 THEN n ELSE 0],
                       [s \in Stages |-> IF s = 1 THEN ca ELSE cg], TRUE)
        /\ ntasks = k
        /\ producer = Main

\* the step of the loop for a user function that returns
RunReturning(t) == RunTask(t) /\ raised' = raised

NextSame ==
    \/ \E t \in Threads : Pop(t)
    \/ \E t \in Threads : RunReturning(t)
    \/ \E t \in Threads : Forward(t)
    \/ \E t \in Threads : taskFinished(t)
    \/ \E t \in Threads : stopAll(t)
    \/ DriverChain
    \/ setTaskCount
    \/ Start
    \/ push(Main)
    \/ run
    \/ has_exceptions

SpecSame == InitSame /\ [][NextSame]_vars

FairSame == SpecSame /\ WF_vars(NextSame)

\* ================================================================ claims
\* the driver has set every counter and the pushes may have begun
Configured == pc[Main] \notin {"chain", "count", "start"}

\* number of entries of the list errs equal to e
Count(errs, e) == Cardinality({j \in 1..Len(errs) : errs[j] = e})

\* the number of times index i is expected at a stage: once if it is pushed
Expected(i) == IF i < ntasks THEN 1 ELSE 0

\* C1: when wait() or run() of a stage has returned, the stage's function has
\* been invoked exactly once for each of the K pushed indices, by exactly one
\* thread, and for no other index, whether or not invocations raised
ExactlyOnce ==
    \A j \in 1..Len(waits) : \A i \in Indices :
        /\ invoked[waits[j].stage][i] = Expected(i)
        /\ Cardinality(invokedBy[waits[j].stage][i]) = Expected(i)

\* a wait() returned on a stage with two workers, each of which ran one of two
\* indices, one invocation raising and one returning
ExactlyOnceWitness ==
    /\ waits # <<>>
    /\ ntasks = 2
    /\ num_threads[waits[1].stage] = 2
    /\ invokedBy[waits[1].stage][0] # invokedBy[waits[1].stage][1]
    /\ raised[waits[1].stage][0] = 1
    /\ raised[waits[1].stage][1] = 0

\* C4: once the counter of a stage S1 with a next stage S2 is back at 0, every
\* index was pushed into S2 exactly as often as into S1, whatever S1's
\* invocations did
DownstreamConservation ==
    \A s \in Built :
        (Configured /\ next[s] # NoStage /\ task_counter[s] = 0)
            => \A i \in Indices : arrived[next[s]][i] = arrived[s][i]

\* S1 has drained two indices, one of which raised, and both reached S2
DownstreamConservationWitness ==
    /\ nstages >= 2
    /\ ntasks = 2
    /\ stop[1]
    /\ raised[1][0] = 1
    /\ raised[1][1] = 0
    /\ arrived[2][0] = 1
    /\ arrived[2][1] = 1

\* a is a prefix of b
IsPrefix(a, b) == Len(a) <= Len(b) /\ SubSeq(b, 1, Len(a)) = a

\* C6: a wait() or run() that came back raised PipelineFailure exactly when
\* the Pipeline held an error at that moment, whichever stage recorded it; the
\* errors it looked at are those of the one Pipeline every stage of the chain
\* holds, which only grows afterwards
RaisesIffRecorded ==
    \A j \in 1..Len(waits) :
        /\ waits[j].failed <=> (Len(waits[j].errors) > 0)
        /\ \A s \in Built : IsPrefix(waits[j].errors, exceptions[pipeline[s]])

\* a wait() raised although every error in the Pipeline came from another stage
RaisesIffRecordedWitness ==
    \E j \in 1..Len(waits) :
        /\ waits[j].failed
        /\ \A n \in 1..Len(waits[j].errors) : waits[j].errors[n][1] # waits[j].stage

\* C7: in a chain whose stages all have the count K, when wait() on the last
\* stage returns every index 0..K-1 has been invoked there once and the
\* Pipeline it reads holds exactly one entry per raising invocation of every
\* stage of the chain
MidChainFailure ==
    \A j \in 1..Len(waits) :
        (nstages >= 2 /\ waits[j].stage = nstages /\ kind[nstages] = "Stage")
            => /\ \A i \in Indices : invoked[nstages][i] = Expected(i)
               /\ \A s \in Built : \A i \in Indices :
                    Count(waits[j].errors, <<s, i>>) = raised[s][i]

\* A -> B -> C: B raised on index 0, C on index 1, and C.wait() found the two
\* entries
MidChainFailureWitness ==
    /\ nstages = 3
    /\ waits # <<>>
    /\ waits[1].stage = 3
    /\ raised[2][0] = 1
    /\ raised[3][1] = 1
    /\ Len(waits[1].errors) = 2

\* C9: the queue of a stage never holds more than capacity items, sentinels
\* included, so a push on a full queue completes only after a pop
BoundedBuffering ==
    \A s \in Built : Len(tasks[s]) <= capacity[s]

\* stopAll is stopped by a full queue with sentinels left to push
BoundedBufferingWitness ==
    \E t \in Threads :
        /\ pc[t] = "sent"
        /\ todo[t] > 0
        /\ Len(tasks[cur[t]]) = capacity[cur[t]]
        /\ Sentinel \in {tasks[cur[t]][n] : n \in 1..Len(tasks[cur[t]])}

\* some invocation of a user function returned without raising
SomeReturned == \E s \in Built : \E i \in Indices : invoked[s][i] > raised[s][i]

\* some invocation of a user function raised
SomeRaised == \E s \in Built : \E i \in Indices : raised[s][i] > 0

\* every stage is drained: counter 0, completion lock free, workers exited
AllDrained ==
    \A s \in Built :
        /\ task_counter[s] = 0
        /\ done_cv[s] = Free
        /\ \A t \in workers(s) : pc[t] = "exit"

\* C2: with K >= 1 tasks per stage, all of them raising, the driver's wait()
\* or run() calls eventually return, each by raising PipelineFailure, and
\* every stage of the chain ends with its counter at 0 and its workers exited
NoDeadlockUnderFailure ==
    <>(\/ ntasks = 0
       \/ SomeReturned
       \/ /\ pc[Main] = "done"
          /\ \A j \in 1..Len(waits) : waits[j].failed
          /\ AllDrained)

\* two stages, two indices, every invocation raised, and the driver is back
\* from its wait() calls
NoDeadlockUnderFailureWitness ==
    /\ nstages = 2
    /\ ntasks = 2
    /\ \A s \in Built : \A i \in Indices : raised[s][i] = 1
    /\ pc[Main] = "done"
    /\ waits[1].failed
    /\ AllDrained

\* C3: while no invocation has raised, the driver's wait() or run() is either
\* back, without PipelineFailure, or some thread can still take a step: it
\* does not end up blocked for good, for K = 0 as for K >= 1
NoFailureReturns ==
    (Configured /\ ~SomeRaised)
        => /\ pc[Main] = "done" \/ ENABLED Next
           /\ \A j \in 1..Len(waits) : ~waits[j].failed

\* C5: on a stage that was never chained, once wait() has returned the
\* Pipeline reachable as stage.pipeline holds exactly one entry per raising
\* invocation and none for the others
CompleteErrorCollection ==
    (nstages = 1 /\ waits # <<>>)
        => \A i \in Indices : Count(exceptions[pipeline[1]], <<1, i>>) = raised[1][i]

\* the next links form one chain through all the stages
LinearChain == \E h \in Built : Walk(next, h, {}) = Built

\* every stage holds the same Pipeline object
SamePipeline ==
    \A s, t \in Built : pipeline[s] # NoPipe /\ pipeline[s] = pipeline[t]

\* C8 as stated: whenever the chain() calls made so far have left the stages
\* linked into one chain, all of them hold the same Pipeline
SharedPipelineAnyCalls == LinearChain => SamePipeline

\* C8 amended: the same, provided no chain() call replaced a next link that an
\* earlier call had set to another stage
SharedPipeline == (LinearChain /\ ~relinked) => SamePipeline

\* the chain is complete, no link was replaced, and the Pipeline all stages
\* share is the one created last, that of the head: the call that linked the
\* head came after the stages below it had their Pipelines
SharedPipelineWitness ==
    /\ LinearChain
    /\ ~relinked
    /\ npipes = ChainStages
    /\ \A s \in Built : pipeline[s] = npipes

\* C10 as stated: the second wait() on a stage gives the result of the first
IdempotentDrain ==
    Len(waits) >= 2
        => /\ waits[2].failed = waits[1].failed
           /\ waits[2].errors = waits[1].errors

\* the second wait() finds the errors the first one found, followed by errors
\* recorded in between by stages further down the chain, and raises exactly
\* when it finds any
SecondWaitResult ==
    Len(waits) >= 2
        => /\ waits[2].stage = waits[1].stage
           /\ IsPrefix(waits[1].errors, waits[2].errors)
           /\ waits[2].failed <=> (Len(waits[2].errors) > 0)
           /\ \A n \in (Len(waits[1].errors) + 1)..Len(waits[2].errors) :
                  waits[2].errors[n][1] > waits[1].stage

\* a wait() on a stage that a wait() already returned from never blocks
SecondWaitImmediate ==
    waits # <<>>
        => /\ pc[Main] = "wait"
              => task_counter[cur[Main]] = 0 /\ done_cv[cur[Main]] = Free
           /\ pc[Main] = "join" => \A t \in workers(cur[Main]) : pc[t] = "exit"

\* the steps of the driver after its first wait() returned change nothing of
\* the stages, queues, pools and Pipelines
SecondWaitFrame ==
    (waits # <<>> /\ pc'[Main] # pc[Main]) => UNCHANGED objVars

\* C10 amended: a second wait() on a drained stage returns at once and changes
\* no state of pool, queue or Pipeline; it raises exactly when the Pipeline
\* holds an error at that time, so its result is that of the first call unless
\* a stage further down the chain recorded an error in between
IdempotentDrainAmended ==
    /\ [](SecondWaitResult /\ SecondWaitImmediate)
    /\ [][SecondWaitFrame]_vars

\* both wait() calls on a stage returned, both raising, with the same errors
IdempotentDrainWitness ==
    /\ Len(waits) >= 2
    /\ waits[1].failed
    /\ waits[2].failed
    /\ waits[2].errors = waits[1].errors

\* C11: setCapacity succeeds only on a queue that is empty and was never
\* pushed to; in every other state it fails and leaves capacity and contents
\* as they were
CapacityOnlyBeforeFirstPush ==
    last.op = "setCapacity"
        => /\ last.raised <=> ~(last.empty /\ ~last.everPushed)
           /\ last.raised => last.after = last.before

\* C12: setTaskCount with a negative count is refused at the call and the
\* counter is never negative
NegativeCountRejected ==
    /\ \A s \in Built : task_counter[s] >= 0
    /\ (last.op = "setTaskCount" /\ last.arg < 0)
            => last.raised /\ last.after = last.before

\* the last stage of the chain is a StageCurrent
Foreground == kind[nstages] = "StageCurrent"

\* C13: with a foreground last stage G, counts K >= 1 on every stage and the
\* producer on a thread of its own, G.run() eventually returns; G's function
\* only ever runs on the thread that called run(), and when run() has returned
\* it ran exactly once for each of the K indices
ForegroundRun ==
    /\ [](Foreground => \A i \in Indices : invokedBy[nstages][i] \subseteq {Main})
    /\ [](\A j \in 1..Len(waits) :
            (Foreground /\ waits[j].stage = nstages)
                => \A i \in Indices :
                       /\ invoked[nstages][i] = Expected(i)
                       /\ invokedBy[nstages][i] = IF i < ntasks THEN {Main} ELSE {})
    /\ (Foreground /\ ntasks >= 1) ~> (pc[Main] = "done" /\ waits # <<>>)

\* A -> G with two indices pushed by the producer thread: run() is back and
\* both indices ran on A's workers first and then on the calling thread
ForegroundRunWitness ==
    /\ nstages = 2
    /\ Foreground
    /\ producer = Producer
    /\ ntasks = 2
    /\ pc[Main] = "done"
    /\ waits # <<>>
    /\ \A i \in Indices : invokedBy[2][i] = {Main} /\ invokedBy[1][i] # {}

\* the tasks of stage s are executed by one thread: a pool of one worker, or
\* the caller of run()
SingleWorker(s) ==
    IF kind[s] = "Stage" THEN num_threads[s] = 1 ELSE kind[s] = "StageCurrent"

\* C14: on a first stage with one executing thread and capacity >= K, fed by
\* the one producer in the order 0, 1, ..., K-1, the function is invoked on an
\* index only when it has been invoked on every index pushed before it
PushOrder ==
    [][\A i \in Indices :
          (SingleWorker(1) /\ capacity[1] >= ntasks /\ invoked'[1][i] > invoked[1][i])
              => \A j \in Indices : j < i => invoked[1][j] = 1]_vars

\* a one-worker stage of capacity 2 held both indices in its queue at once and
\* has run index 0, with index 1 still waiting behind it
PushOrderWitness ==
    /\ SingleWorker(1)
    /\ ntasks = 2
    /\ capacity[1] >= ntasks
    /\ pushed = 2
    /\ invoked[1][0] = 1
    /\ invoked[1][1] = 0
    /\ tasks[1] = <<1>>

\* the lines of a summary that describe one recorded error each
EntryLines(msg) == SelectSeq(msg, LAMBDA l : l[1] = "entry")

\* C15: the failure raised for a Pipeline holding n >= 1 errors has a summary
\* whose first line states n and whose entry lines are the first min(n, 5)
\* recorded errors in recorded order, and its cause is the first recorded error
SummaryOfFailure ==
    last.op = "raise"
        => LET n == Len(last.errors)
               m == IF n < 5 THEN n ELSE 5
           IN  /\ n >= 1
               /\ last.summary[1] = <<"failed", n>>
               /\ EntryLines(last.summary)
                      = [j \in 1..m |-> <<"entry", last.errors[j][1], last.errors[j][2]>>]
               /\ last.cause = last.errors[1]

\* a failure raised for 6 recorded errors whose sixth differs from the first
SummaryOfFailureWitness ==
    /\ last.op = "raise"
    /\ Len(last.errors) = 6
    /\ last.errors[6] # last.errors[1]
    /\ last.errors[2] # last.errors[1]

\* the threads that execute the tasks of stage s: the workers of its pool, or
\* the caller of run()
Executors(s) == IF kind[s] = "Stage" THEN workers(s) ELSE {Main}

\* thread t has left the loop of _worker / run
Exited(t) == IF t = Main THEN pc[t] \in {"r_chk", "done"} ELSE pc[t] = "exit"

\* the sentinels of stage s: in its queue, popped and not yet looked at, and
\* still to be pushed by the thread inside stopAll
SentinelsQueued(s) == Cardinality({n \in 1..Len(tasks[s]) : tasks[s][n] = Sentinel})
SentinelsHeld(s) == {t \in Executors(s) : pc[t] = "chk" /\ task[t] = Sentinel}
SentinelsToPush(s) ==
    IF \E t \in Executors(s) : pc[t] = "sent"
    THEN todo[CHOOSE t \in Executors(s) : pc[t] = "sent"]
    ELSE 0

\* the state of the shutdown of stage s
ShutdownState(s) ==
    LET out == {t \in Executors(s) : Exited(t)}
    IN  /\ ~stop[s] => /\ SentinelsQueued(s) = 0
                       /\ SentinelsHeld(s) = {}
                       /\ out = {}
        /\ stop[s] => /\ task_counter[s] = 0
                      /\ SentinelsQueued(s) = Len(tasks[s])
                      /\ \A t \in Executors(s) :
                            /\ pc[t] \in {"pop", "chk", "sent"} \/ Exited(t)
                            /\ pc[t] = "chk" => task[t] = Sentinel
                      /\ SentinelsQueued(s) + Cardinality(SentinelsHeld(s))
                            + Cardinality(out) + SentinelsToPush(s)
                            = Cardinality(Executors(s))
        /\ \A t \in Executors(s) : pc[t] = "fin" => task[t] # Sentinel
        /\ out = Executors(s) => tasks[s] = <<>>

\* C16: stop goes from false to true once, in the step that brings the counter
\* to 0, and never back; exactly N sentinels are pushed and each worker takes
\* one of them, sees stop and leaves without executing it or touching the
\* counter; no real task is popped while stop is true; the queue is empty once
\* all workers have left
ShutdownProtocol ==
    /\ [](Configured => \A s \in Built : ShutdownState(s))
    /\ [][\A s \in Built :
            /\ stop[s] => stop'[s]
            /\ (~stop[s] /\ stop'[s]) => (task_counter[s] = 1 /\ task_counter'[s] = 0)]_vars

\* both workers of a two-worker stage have left after two tasks, each of them
\* having run one, and the queue is empty
ShutdownProtocolWitness ==
    /\ num_threads[1] = 2
    /\ ntasks = 2
    /\ stop[1]
    /\ \A t \in workers(1) : pc[t] = "exit"
    /\ invokedBy[1][0] # invokedBy[1][1]
    /\ tasks[1] = <<>>

\* the calls of the function of stage s made so far
Invocations(s) == Sum([n \in 1..MaxIndex |-> invoked[s][n - 1]], MaxIndex)

\* the threads that are executing a real task of stage s: its function was
\* called and taskFinished has not been done for it
Executing(s) ==
    {t \in Threads : /\ cur[t] = s
                     /\ pc[t] \in {"pchk", "pset", "pret", "fwd", "fin"}
                     /\ task[t] # Sentinel}

\* C17: once the counts are set to K, the counter of a stage is K minus the
\* number of its real tasks whose execution is over, returned or raised; it is
\* never below 0 and no sentinel is on its way to taskFinished
CounterInvariant ==
    Configured
        => \A s \in Built :
              /\ task_counter[s] = ntasks - (Invocations(s) - Cardinality(Executing(s)))
              /\ task_counter[s] >= 0
              /\ \A t \in Threads : (cur[t] = s /\ pc[t] = "fin") => task[t] # Sentinel

\* of two tasks one is over, having raised, and the other one is executing:
\* the counter stands at 1
CounterInvariantWitness ==
    /\ ntasks = 2
    /\ task_counter[1] = 1
    /\ Invocations(1) = 2
    /\ Cardinality(Executing(1)) = 1
    /\ \E i \in Indices : raised[1][i] = 1 /\ \A t \in Executing(1) : task[t] # i

\* stage s is drained: counter 0, every worker of its pool has left its loop,
\* nothing is queued and no thread is executing one of its tasks
Drained(s) ==
    /\ task_counter[s] = 0
    /\ \A t \in workers(s) : pc[t] = "exit"
    /\ tasks[s] = <<>>
    /\ Executing(s) = {}

\* C18: when wait() on a background stage comes back, returning or raising,
\* the counter of that stage is 0, all its workers have exited, and none of
\* its tasks is queued or executing; this is so from the moment join is over
DrainedOnReturn ==
    /\ (pc[Main] = "w_chk" => Drained(cur[Main]))
    /\ \A j \in 1..Len(waits) :
          kind[waits[j].stage] = "Stage" => Drained(waits[j].stage)

\* wait() on the first stage of a chain is back, the two workers of that
\* stage have exited, and the stage below is still at work
DrainedOnReturnWitness ==
    /\ nstages >= 2
    /\ waits # <<>>
    /\ waits[1].stage = 1
    /\ num_threads[1] = 2
    /\ ntasks = 2
    /\ ~Drained(2)

\* the completion locks thread t holds
Holds(t) == {s \in Stages : done_cv[s] = t}

\* the step is a push or a pop on a queue done by thread t
QueueOpBy(t) ==
    /\ tasks' # tasks
    /\ \/ pc'[t] # pc[t]
       \/ todo'[t] # todo[t]
       \/ (t = producer /\ pushed' # pushed)

\* thread t is inside self.pipeline.add_exception or the checks of wait/run,
\* where the lock of the Pipeline is taken
AtPipeline(t) == pc[t] \in {"pchk", "pset", "pret", "w_chk", "r_chk"}

\* C19 as stated: no thread holds two locks at a time; no push or pop is done
\* by a thread that holds a completion lock
NoNestedLocks ==
    /\ [](\A t \in Threads : AtPipeline(t) => Holds(t) = {})
    /\ [][\A t \in Threads : QueueOpBy(t) => Holds(t) = {}]_vars

\* C19 amended: a thread holds at most one completion lock, that of the stage
\* it works for, and only inside stopAll; it never takes the lock of the
\* Pipeline while holding it; the only queue operation done with a completion
\* lock held is stopAll's push of a sentinel into the queue of that stage
LockNesting ==
    /\ [](\A t \in Threads :
            /\ Holds(t) # {} => (pc[t] = "sent" /\ Holds(t) = {cur[t]})
            /\ AtPipeline(t) => Holds(t) = {})
    /\ [][\A t \in Threads :
            (QueueOpBy(t) /\ Holds(t) # {})
                => /\ pc[t] = "sent"
                   /\ tasks' = pushTask(tasks, cur[t], Sentinel)]_vars

\* a thread inside stopAll holds done_cv, has pushed a sentinel and has
\* another one to push
LockNestingWitness ==
    \E t \in Threads :
        /\ pc[t] = "sent"
        /\ Holds(t) = {cur[t]}
        /\ todo[t] = 1
        /\ num_threads[cur[t]] = 2
        /\ SentinelsQueued(cur[t]) + Cardinality(SentinelsHeld(cur[t])) >= 1

\* the threads of stage s that have called its function on index i and have
\* not yet reached the forward of i: the call is running, or its exception is
\* about to be recorded
BeforeForward(s, i) ==
    {t \in Threads : /\ cur[t] = s
                     /\ task[t] = i
                     /\ pc[t] \in {"pchk", "pset", "pret"}}

\* C20: for linked stages S1 -> S2 and every index i, i is pushed into S2 only
\* when S1's function was called on i and that call is over, and, if it
\* raised, with the error (S1, i) in the Pipeline; S2's function is never
\* called on an index that was not pushed into S2
ForwardingOrder ==
    \A s \in Built : \A i \in Indices :
        next[s] # NoStage
            => /\ arrived[next[s]][i] <= invoked[s][i]
               /\ arrived[next[s]][i] > 0
                    => /\ BeforeForward(s, i) = {}
                       /\ Count(exceptions[pipeline[s]], <<s, i>>) = raised[s][i]
               /\ invoked[next[s]][i] <= arrived[next[s]][i]

\* index 0 raised in S1 and runs in S2 while S1 is still executing index 1
ForwardingOrderWitness ==
    /\ nstages >= 2
    /\ ntasks = 2
    /\ raised[1][0] = 1
    /\ invoked[2][0] = 1
    /\ arrived[2][1] = 0
    /\ BeforeForward(1, 1) # {}

\* the pushes of indices into stage s completed so far
Arrivals(s) == Sum([n \in 1..MaxIndex |-> arrived[s][n - 1]], MaxIndex)

\* C21: for linked stages S1 -> S2 the counter of S1 is decremented for an
\* index only after the index was pushed into S2: S1 has counted down at most
\* as many tasks as indices have arrived in S2, and whenever S1's counter is 0
\* all K indices have been pushed into S2 and no thread of S1 is at the push
\* into S2's queue
ForwardBeforeDecrement ==
    Configured
        => \A s \in Built :
              next[s] # NoStage
                  => /\ ntasks - task_counter[s] <= Arrivals(next[s])
                     /\ task_counter[s] = 0
                          => /\ \A i \in Indices : arrived[next[s]][i] = Expected(i)
                             /\ \A t \in Threads : cur[t] = s => pc[t] # "fwd"

\* S1 is at 0 and inside stopAll with a sentinel left to push; both indices
\* are in S2, which has not run the second one yet
ForwardBeforeDecrementWitness ==
    /\ nstages >= 2
    /\ ntasks = 2
    /\ task_counter[1] = 0
    /\ \E t \in Threads : cur[t] = 1 /\ pc[t] = "sent" /\ todo[t] > 0
    /\ Arrivals(2) = 2
    /\ invoked[2][1] = 0

\* C22: after a setCapacity call that succeeded before the first push, the
\* stage is not stranded: as long as wait() has not come back some thread can
\* take a step, so the K >= 1 tasks pushed get popped and run and wait()
\* returns
ConfiguredStageRuns ==
    (last.op = "setCapacity" /\ ~last.raised /\ Configured)
        => (pc[Main] = "done" \/ ENABLED NextConfig)

\* C23: a call chain(a, b) sets a.next to b and, unless b holds the Pipeline
\* of a already, gives the Pipeline of a to b and to the stages reachable from
\* b through next; it changes no other next link, keeps the Pipeline a had
\* (creating it if a had none), and leaves the pipeline of every stage not
\* reachable from b as it was, also that of a stage whose next is b; queues,
\* counters and recorded errors are untouched
ChainFrame ==
    [][\A a, b \in Stages :
          ChainCall(a, b)
              => LET down == Walk(next', b, {})
                 IN  /\ next'[a] = b
                     /\ \A x \in Stages \ {a} : next'[x] = next[x]
                     /\ pipeline[a] # NoPipe => pipeline'[a] = pipeline[a]
                     /\ pipeline'[a] # NoPipe
                     /\ \A x \in down :
                            pipeline'[x] = IF pipeline[b] = pipeline'[a]
                                           THEN pipeline[x] ELSE pipeline'[a]
                     /\ \A x \in Stages \ (down \cup {a}) : pipeline'[x] = pipeline[x]
                     /\ UNCHANGED <<exceptions, tasks, task_counter, stop, done_cv>>]_vars

\* x and a both have b as next; b took the Pipeline of a in the later call and
\* x kept its own, which is now another one than b's
ChainFrameWitness ==
    \E x, a, b \in Built :
        /\ x # a
        /\ next[x] = b
        /\ next[a] = b
        /\ pipeline[a] # NoPipe
        /\ pipeline[b] = pipeline[a]
        /\ pipeline[x] # NoPipe
        /\ pipeline[x] # pipeline[b]

\* what A's queue, A's workers and G's queue hold together
Room == capacity[1] + num_threads[1] + capacity[2]

\* the driver is not past its push loop
InPushLoop == pc[Main] \in {"chain", "count", "start", "push"}

\* C24: a driver that pushes all K indices into A itself and only then calls
\* G.run() completes its pushes and leaves run() if and only if
\* K <= Ca + N + Cg; with a larger K it stays blocked in push for ever and
\* never reaches G.run()
SameThreadThreshold ==
    /\ ntasks <= Room => <>(pc[Main] = "done" /\ pushed = ntasks /\ waits # <<>>)
    /\ ntasks > Room => [](InPushLoop /\ pushed <= Room)
    /\ ntasks > Room => <>[](pc[Main] = "push" /\ pushed = Room)

\* the same for a driver that pushes at least one index
SameThreadThresholdPushing ==
    ntasks >= 1 => SameThreadThreshold

\* the driver is blocked in its push with both queues full and every worker of
\* A blocked in its forward
SameThreadBlocked ==
    /\ ntasks > Room
    /\ pc[Main] = "push"
    /\ pushed = Room
    /\ Len(tasks[1]) = capacity[1]
    /\ Len(tasks[2]) = capacity[2]
    /\ \A t \in workers(1) : pc[t] = "fwd"

\* the driver that pushed nothing is in run(), blocked in popTask on G's empty
\* queue, and no sentinel is on its way
SameThreadIdle ==
    /\ ntasks = 0
    /\ pc[Main] = "pop"
    /\ cur[Main] = 2
    /\ tasks[2] = <<>>
    /\ ~ENABLED NextSame

====
